---- MODULE Spec2Model ----
(***************************************************************************)
(* Model of src/test-replay-behavior.ts: main() runs five scenarios, each  *)
(* one invocation of runTest(name, stopReplay, waitBeforeDeleteMs), one    *)
(* after the other, pushes each returned TestResult onto `results`, and    *)
(* prints a report.  Every `await` of runTest is one action; the remote    *)
(* service and the Playwright connection are the environment: each call    *)
(* either returns or throws, chosen nondeterministically.                  *)
(***************************************************************************)
EXTENDS Integers, Sequences, FiniteSets, TLC

VARIABLES
  mainPc,        \* main(): "call" | "await" | "report" | "done"
  cur,           \* main(): index of the runTest statement main is at (lines 171..183)
  results,       \* main(): const results: TestResult[]
  report,        \* main(): what the ANALYSIS section printed
  pc,            \* runTest invocation n: the await it is suspended at
  result,        \* runTest invocation n: const result: TestResult
  kernelBrowser, \* runTest invocation n: kernelBrowser.session_id
  replay,        \* runTest invocation n: replay.replay_id
  replays,       \* runTest invocation n: const replays (the list returned)
  idx,           \* runTest invocation n: position of `for (const r of replays)`
  calls,         \* runTest invocation n: history of the awaited statements it ran
  created,       \* remote service: session ids returned by browsers.create
  deleteCalled   \* remote service: session ids deleteByID was called on

vars == <<mainPc, cur, results, report, pc, result, kernelBrowser, replay,
          replays, idx, calls, created, deleteCalled>>

mainVars == <<mainPc, cur, results, report>>
remoteVars == <<created, deleteCalled>>

----------------------------------------------------------------------------
(* Bounds of the environment *)

\* blob.size of a downloaded replay ranges over 0..MaxBlobSize
MaxBlobSize == 1
\* replays.list returns at most MaxListLen entries
MaxListLen == 2
\* replay ids the list may hold besides the one replays.start returned
NumOtherReplays == 1
\* the report is computed for result sequences of up to MaxResults entries
MaxResults == 3

\* messages of the errors the calls throw
Messages == {"timeout"}

----------------------------------------------------------------------------
(* Program constants *)

\* the five runTest calls of main, in source order
Scenarios ==
  << [name |-> "No stop, immediate delete", stopReplay |-> FALSE, waitBeforeDeleteMs |-> 0],
     [name |-> "Stop, 0ms wait, delete",    stopReplay |-> TRUE,  waitBeforeDeleteMs |-> 0],
     [name |-> "Stop, 250ms wait, delete",  stopReplay |-> TRUE,  waitBeforeDeleteMs |-> 250],
     [name |-> "Stop, 500ms wait, delete",  stopReplay |-> TRUE,  waitBeforeDeleteMs |-> 500],
     [name |-> "Stop, 1000ms wait, delete", stopReplay |-> TRUE,  waitBeforeDeleteMs |-> 1000] >>

NumScenarios == Len(Scenarios)
Tests == 1..NumScenarios

RecordingPauseMs == 1000
ProcessingWaitMs == 3000

\* replayId: string | null
Null == "null"

\* the remote service hands out a fresh id on every create / start
SessionIdFor(n) == "sess-" \o ToString(n)
ReplayIdFor(n) == "rep-" \o ToString(n)
OtherReplayIds == {"other-" \o ToString(i) : i \in 1..NumOtherReplays}

----------------------------------------------------------------------------
(* Helpers *)

\* obj.f = v on an object whose optional fields may be absent
SetField(r, f, v) == (f :> v) @@ r

Has(r, f) == f \in DOMAIN r

\* what a failing call throws: an Error carrying a message
Thrown == [message : Messages]

\* error instanceof Error ? error.message : String(error)
ErrorMessage(e) == e.message

\* `list_error: ${errorMessage}`
ListErrorStatus(m) == "list_error: " \o m

\* sequences without repetition over S, of length at most k
RECURSIVE DistinctSeqs(_, _)
DistinctSeqs(S, k) ==
  IF k = 0 THEN {<<>>}
  ELSE {<<>>} \cup UNION {{<<x>> \o s : s \in DistinctSeqs(S \ {x}, k - 1)} : x \in S}

\* what replays.list may return for invocation n: replay ids identify replays,
\* so no id is listed twice
ReplayLists(n) == DistinctSeqs({ReplayIdFor(n)} \cup OtherReplayIds, MaxListLen)

\* one entry of the history: the statement, the session and replay id it was given
\* (or returned), the milliseconds of a sleep or the size of a blob, whether it
\* returned, and for a list the replay ids it returned
Call(op, sid, rid, num, ok) ==
  [op |-> op, sid |-> sid, rid |-> rid, num |-> num, ok |-> ok, ids |-> {}]

ListCall(sid, l) ==
  [op |-> "list", sid |-> sid, rid |-> "", num |-> Len(l), ok |-> TRUE,
   ids |-> {l[i] : i \in 1..Len(l)}]

\* mutant of InitialResult: replayFound starts out true
InitialResult_FoundByDefault(name, stopReplay, waitBeforeDeleteMs) ==
  [ name |-> name,
    sessionId |-> "",
    replayId |-> Null,
    stopCalled |-> stopReplay,
    waitMs |-> waitBeforeDeleteMs,
    replayFound |-> TRUE ]

\* mutant of InitialResult: stopCalled is hard-coded instead of echoing stopReplay
InitialResult_StopHardCoded(name, stopReplay, waitBeforeDeleteMs) ==
  [ name |-> name,
    sessionId |-> "",
    replayId |-> Null,
    stopCalled |-> TRUE,
    waitMs |-> waitBeforeDeleteMs,
    replayFound |-> FALSE ]

\* const result: TestResult = { name, sessionId: "", replayId: null, ... }
InitialResult(name, stopReplay, waitBeforeDeleteMs) ==
  [ name |-> name,
    sessionId |-> "",
    replayId |-> Null,
    stopCalled |-> stopReplay,
    waitMs |-> waitBeforeDeleteMs,
    replayFound |-> FALSE ]

\* a frame that is not running: before the call and after the result was taken
NoResult == [name |-> ""]

----------------------------------------------------------------------------
Init ==
  /\ mainPc = "call"
  /\ cur = 1
  /\ results = <<>>
  /\ report = [printed |-> FALSE]
  /\ pc = [n \in Tests |-> "idle"]
  /\ result = [n \in Tests |-> NoResult]
  /\ kernelBrowser = [n \in Tests |-> ""]
  /\ replay = [n \in Tests |-> ""]
  /\ replays = [n \in Tests |-> <<>>]
  /\ idx = [n \in Tests |-> 0]
  /\ calls = [n \in Tests |-> <<>>]
  /\ created = {}
  /\ deleteCalled = {}

----------------------------------------------------------------------------
(* runTest: the pieces every step is built from *)

Goto(n, label) == pc' = [pc EXCEPT ![n] = label]

Log(n, c) == calls' = [calls EXCEPT ![n] = Append(@, c)]

\* mutant of OuterCatch: the error is rethrown and runTest rejects
OuterCatch_Rethrow(n, e) ==
  /\ result' = result
  /\ Goto(n, "threw")

\* lines 148..152: } catch (error) { result.error = errorMessage; }, then line 154
OuterCatch(n, e) ==
  /\ result' = [result EXCEPT ![n] = SetField(@, "error", ErrorMessage(e))]
  /\ Goto(n, "returned")

\* an awaited call inside the outer try that yields nothing the code keeps:
\* it returns and runTest goes on at `next`, or it throws into the outer catch
Await(n, op, sid, rid, next) ==
  \/ /\ Log(n, Call(op, sid, rid, 0, TRUE))
     /\ Goto(n, next)
     /\ UNCHANGED result
  \/ \E e \in Thrown :
       /\ Log(n, Call(op, sid, rid, 0, FALSE))
       /\ OuterCatch(n, e)

\* await sleep(ms): setTimeout always resolves
Sleep(n, ms, next) ==
  /\ Log(n, Call("sleep", "", "", ms, TRUE))
  /\ Goto(n, next)
  /\ UNCHANGED result

localVars == <<kernelBrowser, replay, replays, idx>>

\* the parameters of invocation n (lines 24..26)
name(n) == Scenarios[n].name
stopReplay(n) == Scenarios[n].stopReplay
waitBeforeDeleteMs(n) == Scenarios[n].waitBeforeDeleteMs

\* mutant of AfterStop: the wait before the delete is left out
AfterStop_NoWait(n) == "delete"

\* lines 81 and 92: where runTest goes after browser.close() and after the stop step
AfterStop(n) == IF waitBeforeDeleteMs(n) > 0 THEN "wait" ELSE "delete"

\* mutant of AfterClose: the replay is stopped whatever stopReplay says
AfterClose_AlwaysStop(n) == "stop"

AfterClose(n) == IF stopReplay(n) THEN "stop" ELSE AfterStop(n)

----------------------------------------------------------------------------
(* runTest, lines 44..104: from browsers.create to the settling delay *)

\* line 46..49: kernel.browsers.create; result.sessionId = kernelBrowser.session_id
Create(n) ==
  /\ pc[n] = "create"
  /\ \/ /\ Log(n, Call("create", SessionIdFor(n), "", 0, TRUE))
        /\ kernelBrowser' = [kernelBrowser EXCEPT ![n] = SessionIdFor(n)]
        /\ result' = [result EXCEPT ![n] = SetField(@, "sessionId", SessionIdFor(n))]
        /\ created' = created \cup {SessionIdFor(n)}
        /\ Goto(n, "connectOverCDP")
        /\ UNCHANGED <<replay, replays, idx, deleteCalled>>
     \/ /\ \E e \in Thrown :
             /\ Log(n, Call("create", "", "", 0, FALSE))
             /\ OuterCatch(n, e)
        /\ UNCHANGED <<localVars, remoteVars>>
  /\ UNCHANGED mainVars

\* line 55: chromium.connectOverCDP(kernelBrowser.cdp_ws_url)
ConnectOverCDP(n) ==
  /\ pc[n] = "connectOverCDP"
  /\ Await(n, "connectOverCDP", kernelBrowser[n], "", "context")
  /\ UNCHANGED <<mainVars, localVars, remoteVars>>

\* line 56: browser.contexts()[0] || (await browser.newContext()): the connection
\* has a context or newContext() returns one, or newContext() throws
Context(n) ==
  /\ pc[n] = "context"
  /\ Await(n, "context", kernelBrowser[n], "", "page")
  /\ UNCHANGED <<mainVars, localVars, remoteVars>>

\* line 57: context.pages()[0] || (await context.newPage()): the context has a
\* page or newPage() returns one, or newPage() throws
Page(n) ==
  /\ pc[n] = "page"
  /\ Await(n, "page", kernelBrowser[n], "", "goto1")
  /\ UNCHANGED <<mainVars, localVars, remoteVars>>

\* line 60: page.goto("https://example.com")
Goto1(n) ==
  /\ pc[n] = "goto1"
  /\ Await(n, "goto", kernelBrowser[n], "", "waitForLoadState")
  /\ UNCHANGED <<mainVars, localVars, remoteVars>>

\* line 61: page.waitForLoadState("networkidle")
WaitForLoadState(n) ==
  /\ pc[n] = "waitForLoadState"
  /\ Await(n, "waitForLoadState", kernelBrowser[n], "", "start")
  /\ UNCHANGED <<mainVars, localVars, remoteVars>>

\* lines 65..66: kernel.browsers.replays.start; result.replayId = replay.replay_id
Start(n) ==
  /\ pc[n] = "start"
  /\ \/ /\ Log(n, Call("start", kernelBrowser[n], ReplayIdFor(n), 0, TRUE))
        /\ replay' = [replay EXCEPT ![n] = ReplayIdFor(n)]
        /\ result' = [result EXCEPT ![n] = SetField(@, "replayId", ReplayIdFor(n))]
        /\ Goto(n, "click")
     \/ /\ \E e \in Thrown :
             /\ Log(n, Call("start", kernelBrowser[n], "", 0, FALSE))
             /\ OuterCatch(n, e)
        /\ UNCHANGED replay
  /\ UNCHANGED <<mainVars, kernelBrowser, replays, idx, remoteVars>>

\* line 71: page.click("body")
Click(n) ==
  /\ pc[n] = "click"
  /\ Await(n, "click", kernelBrowser[n], "", "pause1")
  /\ UNCHANGED <<mainVars, localVars, remoteVars>>

\* line 72: sleep(1000)
Pause1(n) ==
  /\ pc[n] = "pause1"
  /\ Sleep(n, RecordingPauseMs, "goto2")
  /\ UNCHANGED <<mainVars, localVars, remoteVars>>

\* mutant of Goto2: the driver is closed right after the second navigation
Goto2_NoPause(n) ==
  /\ pc[n] = "goto2"
  /\ Await(n, "goto", kernelBrowser[n], "", "close")
  /\ UNCHANGED <<mainVars, localVars, remoteVars>>

\* line 73: page.goto("https://example.com/")
Goto2(n) ==
  /\ pc[n] = "goto2"
  /\ Await(n, "goto", kernelBrowser[n], "", "pause2")
  /\ UNCHANGED <<mainVars, localVars, remoteVars>>

\* line 74: sleep(1000)
Pause2(n) ==
  /\ pc[n] = "pause2"
  /\ Sleep(n, RecordingPauseMs, "close")
  /\ UNCHANGED <<mainVars, localVars, remoteVars>>

\* line 78: browser.close(), then the `if (stopReplay)` of line 81
Close(n) ==
  /\ pc[n] = "close"
  /\ Await(n, "close", kernelBrowser[n], "", AfterClose(n))
  /\ UNCHANGED <<mainVars, localVars, remoteVars>>

\* mutant of Stop: the session and replay ids are module-level variables that
\* still hold the first scenario's ids
Stop_SharedIds(n) ==
  /\ pc[n] = "stop"
  /\ Await(n, "stop", SessionIdFor(1), ReplayIdFor(1), AfterStop(n))
  /\ UNCHANGED <<mainVars, localVars, remoteVars>>

\* lines 83..85: kernel.browsers.replays.stop(replay.replay_id, {id: session_id})
Stop(n) ==
  /\ pc[n] = "stop"
  /\ Await(n, "stop", kernelBrowser[n], replay[n], AfterStop(n))
  /\ UNCHANGED <<mainVars, localVars, remoteVars>>

\* line 94: sleep(waitBeforeDeleteMs)
Wait(n) ==
  /\ pc[n] = "wait"
  /\ Sleep(n, waitBeforeDeleteMs(n), "delete")
  /\ UNCHANGED <<mainVars, localVars, remoteVars>>

\* mutant of Delete: the list is queried right after the delete
Delete_NoSettle(n) ==
  /\ pc[n] = "delete"
  /\ Await(n, "deleteByID", kernelBrowser[n], "", "list")
  /\ deleteCalled' = deleteCalled \cup {kernelBrowser[n]}
  /\ UNCHANGED <<mainVars, localVars, created>>

\* line 99: kernel.browsers.deleteByID(kernelBrowser.session_id)
Delete(n) ==
  /\ pc[n] = "delete"
  /\ Await(n, "deleteByID", kernelBrowser[n], "", "settle")
  /\ deleteCalled' = deleteCalled \cup {kernelBrowser[n]}
  /\ UNCHANGED <<mainVars, localVars, created>>

\* line 104: sleep(3000)
Settle(n) ==
  /\ pc[n] = "settle"
  /\ Sleep(n, ProcessingWaitMs, "list")
  /\ UNCHANGED <<mainVars, localVars, remoteVars>>

----------------------------------------------------------------------------
(* runTest, lines 106..147: the replay list, the loop over it, the download *)

\* mutant of NextMatch: only the first entry of the list is compared
NextMatch_HeadOnly(l, i, rid) ==
  IF i = 1 /\ Len(l) > 0 /\ l[1] = rid THEN 1 ELSE 0

\* r.replay_id === replay.replay_id (line 117), for the first entry at or after
\* position i of the list l; 0 when the loop ends without one
NextMatch(l, i, rid) ==
  IF \E j \in i..Len(l) : l[j] = rid
  THEN CHOOSE j \in i..Len(l) : l[j] = rid /\ \A k \in i..(j - 1) : l[k] # rid
  ELSE 0

\* lines 114..136: the loop runs from entry i of l, with res the result so far,
\* to its next await (the download of a matching entry, line 123) or to the
\* return of line 154; `replays` and the loop position are dead once the loop
\* is over
Iterate(n, l, i, res) ==
  LET j == NextMatch(l, i, replay[n]) IN
    IF j = 0
    THEN /\ result' = [result EXCEPT ![n] = res]
         /\ replays' = [replays EXCEPT ![n] = <<>>]
         /\ idx' = [idx EXCEPT ![n] = 0]
         /\ Goto(n, "returned")
    ELSE /\ result' = [result EXCEPT ![n] = SetField(res, "replayStatus", "found")]
         /\ replays' = [replays EXCEPT ![n] = l]
         /\ idx' = [idx EXCEPT ![n] = j]
         /\ Goto(n, "download")

\* mutant of ListCatch: no inner try, the list error reaches the outer catch
ListCatch_NoInnerTry(n, e) == OuterCatch(n, e)

\* lines 141..147: } catch (listError) { replayFound = false; replayStatus = ... }
ListCatch(n, e) ==
  /\ result' = [result EXCEPT ![n] =
       SetField(SetField(@, "replayFound", FALSE),
                "replayStatus", ListErrorStatus(ErrorMessage(e)))]
  /\ Goto(n, "returned")

\* lines 112..113 and 137..140: what the list's length decides
ListReturned(n, l) ==
  IF Len(l) > 0
  THEN Iterate(n, l, 1, SetField(result[n], "replayFound", TRUE))
  ELSE /\ result' = [result EXCEPT ![n] =
            SetField(SetField(@, "replayFound", FALSE), "replayStatus", "not_found")]
       /\ UNCHANGED <<replays, idx>>
       /\ Goto(n, "returned")

\* line 109: kernel.browsers.replays.list(kernelBrowser.session_id)
List(n) ==
  /\ pc[n] = "list"
  /\ \/ \E l \in ReplayLists(n) :
          /\ Log(n, ListCall(kernelBrowser[n], l))
          /\ ListReturned(n, l)
     \/ /\ \E e \in Thrown :
             /\ Log(n, Call("list", kernelBrowser[n], "", 0, FALSE))
             /\ ListCatch(n, e)
        /\ UNCHANGED <<replays, idx>>
  /\ UNCHANGED <<mainVars, kernelBrowser, replay, remoteVars>>

\* mutant of DownloadCatch: no try around the download, the error reaches the
\* catch of the list step
DownloadCatch_NoTry(n, e) ==
  /\ ListCatch(n, e)
  /\ UNCHANGED <<replays, idx>>

\* mutant of DownloadCatch: the download error is handed on to the outer catch
DownloadCatch_ToOuter(n, e) ==
  /\ OuterCatch(n, e)
  /\ UNCHANGED <<replays, idx>>

\* mutant of DownloadCatch: the catch logs the error and records no size
DownloadCatch_NoSize(n, e) ==
  Iterate(n, replays[n], idx[n] + 1, result[n])

\* lines 130..134: } catch (downloadError) { result.replayFileSize = 0; }, and the
\* loop goes on with the next entry
DownloadCatch(n, e) ==
  Iterate(n, replays[n], idx[n] + 1, SetField(result[n], "replayFileSize", 0))

\* lines 123..126: kernel.browsers.replays.download(r.replay_id, {id: session_id})
Download(n) ==
  /\ pc[n] = "download"
  /\ \/ /\ Log(n, Call("download", kernelBrowser[n], replays[n][idx[n]], 0, TRUE))
        /\ Goto(n, "blob")
        /\ UNCHANGED <<result, replays, idx>>
     \/ \E e \in Thrown :
          /\ Log(n, Call("download", kernelBrowser[n], replays[n][idx[n]], 0, FALSE))
          /\ DownloadCatch(n, e)
  /\ UNCHANGED <<mainVars, kernelBrowser, replay, remoteVars>>

\* lines 127..128: videoData.blob(); result.replayFileSize = blob.size
Blob(n) ==
  /\ pc[n] = "blob"
  /\ \/ \E size \in 0..MaxBlobSize :
          /\ Log(n, Call("blob", kernelBrowser[n], replays[n][idx[n]], size, TRUE))
          /\ Iterate(n, replays[n], idx[n] + 1,
                     SetField(result[n], "replayFileSize", size))
     \/ \E e \in Thrown :
          /\ Log(n, Call("blob", kernelBrowser[n], replays[n][idx[n]], 0, FALSE))
          /\ DownloadCatch(n, e)
  /\ UNCHANGED <<mainVars, kernelBrowser, replay, remoteVars>>

----------------------------------------------------------------------------
(* main, lines 168..183: the five runTest calls *)

\* mutant of MainCall: runTest is called without await, main goes straight on
\* to the next call
MainCall_NoAwait(n) ==
  /\ mainPc = "call"
  /\ cur = n
  /\ pc[n] = "idle"
  /\ result' = [result EXCEPT ![n] =
       InitialResult(name(n), stopReplay(n), waitBeforeDeleteMs(n))]
  /\ Goto(n, "create")
  /\ mainPc' = IF n = NumScenarios THEN "report" ELSE "call"
  /\ cur' = IF n = NumScenarios THEN n ELSE n + 1
  /\ UNCHANGED <<results, report, localVars, calls, remoteVars>>

\* lines 23..41: main calls runTest, which builds `result` and runs to its first
\* await (line 46)
MainCall(n) ==
  /\ mainPc = "call"
  /\ cur = n
  /\ pc[n] = "idle"
  /\ result' = [result EXCEPT ![n] =
       InitialResult(name(n), stopReplay(n), waitBeforeDeleteMs(n))]
  /\ Goto(n, "create")
  /\ mainPc' = "await"
  /\ UNCHANGED <<cur, results, report, localVars, calls, remoteVars>>

\* mutant of Settled: the await is missing, main goes on while runTest runs
Settled_NoAwait(n) == pc[n] # "idle"

\* `await runTest(...)`: main goes on once the promise of invocation n is settled
Settled(n) == pc[n] \in {"returned", "threw"}

\* lines 171..183: results.push(await runTest(...)); a rejection would leave main
\* through main().catch(console.error), line 249
MainResume(n) ==
  /\ mainPc = "await"
  /\ cur = n
  /\ Settled(n)
  /\ IF pc[n] = "threw"
     THEN /\ mainPc' = "failed"
          /\ UNCHANGED <<cur, results, pc, result, localVars, calls>>
     ELSE /\ results' = Append(results, result[n])
          /\ mainPc' = IF n = NumScenarios THEN "report" ELSE "call"
          /\ cur' = IF n = NumScenarios THEN n ELSE n + 1
          /\ Goto(n, "done")
          /\ result' = [result EXCEPT ![n] = NoResult]
          /\ kernelBrowser' = [kernelBrowser EXCEPT ![n] = ""]
          /\ replay' = [replay EXCEPT ![n] = ""]
          /\ replays' = [replays EXCEPT ![n] = <<>>]
          /\ idx' = [idx EXCEPT ![n] = 0]
          /\ calls' = [calls EXCEPT ![n] = <<>>]
  /\ UNCHANGED <<report, remoteVars>>

----------------------------------------------------------------------------
(* main, lines 207..239: the ANALYSIS section *)

\* results.find(p), given for each position whether p holds of the result there:
\* the first position where it does, 0 for undefined
Find(holds) ==
  IF \E i \in 1..Len(holds) : holds[i]
  THEN CHOOSE i \in 1..Len(holds) : holds[i] /\ \A j \in 1..(i - 1) : ~holds[j]
  ELSE 0

\* Math.min(...xs) of a non-empty sequence of numbers
Min(xs) == CHOOSE m \in {xs[i] : i \in 1..Len(xs)} : \A i \in 1..Len(xs) : m <= xs[i]


\* mutant of IsNoStop: the first result is taken for the one without stop
IsNoStop_Any(r) == TRUE

IsNoStop(r) == ~r.stopCalled
IsImmediateStop(r) == r.stopCalled /\ r.waitMs = 0

\* mutant of IsDelayed: the 0 ms scenario counts as a delayed one
IsDelayed_IncludesZero(r) == r.stopCalled /\ r.waitMs >= 0

IsDelayed(r) == r.stopCalled /\ r.waitMs > 0
IsFound(r) == r.replayFound

\* line 215 and line 232
DelayedTests(rs) == SelectSeq(rs, IsDelayed)
SuccessfulDelays(rs) == SelectSeq(DelayedTests(rs), IsFound)

\* what each of the three numbered paragraphs prints ("none": it is not printed)
Analysis(rs) ==
  LET noStopTest == Find([i \in 1..Len(rs) |-> IsNoStop(rs[i])])
      immediateStopTest == Find([i \in 1..Len(rs) |-> IsImmediateStop(rs[i])])
      successfulDelays == SuccessfulDelays(rs)
  IN [ printed |-> TRUE,
       autoStop |-> IF noStopTest = 0 THEN "none"
                    ELSE IF rs[noStopTest].replayFound THEN "ARE" ELSE "NOT",
       immediate |-> IF immediateStopTest = 0 THEN "none"
                     ELSE IF rs[immediateStopTest].replayFound THEN "YES" ELSE "NO",
       minDelay |-> IF Len(successfulDelays) > 0
                    THEN Min([i \in 1..Len(successfulDelays) |-> successfulDelays[i].waitMs])
                    ELSE -1,
       noneSucceeded |-> Len(successfulDelays) = 0 /\ Len(DelayedTests(rs)) > 0 ]

Report ==
  /\ mainPc = "report"
  /\ report' = Analysis(results)
  /\ mainPc' = "done"
  /\ UNCHANGED <<cur, results, pc, result, localVars, calls, remoteVars>>

----------------------------------------------------------------------------
Next ==
  \/ \E n \in Tests : MainCall(n)
  \/ \E n \in Tests : Create(n)
  \/ \E n \in Tests : ConnectOverCDP(n)
  \/ \E n \in Tests : Context(n)
  \/ \E n \in Tests : Page(n)
  \/ \E n \in Tests : Goto1(n)
  \/ \E n \in Tests : WaitForLoadState(n)
  \/ \E n \in Tests : Start(n)
  \/ \E n \in Tests : Click(n)
  \/ \E n \in Tests : Pause1(n)
  \/ \E n \in Tests : Goto2(n)
  \/ \E n \in Tests : Pause2(n)
  \/ \E n \in Tests : Close(n)
  \/ \E n \in Tests : Stop(n)
  \/ \E n \in Tests : Wait(n)
  \/ \E n \in Tests : Delete(n)
  \/ \E n \in Tests : Settle(n)
  \/ \E n \in Tests : List(n)
  \/ \E n \in Tests : Download(n)
  \/ \E n \in Tests : Blob(n)
  \/ \E n \in Tests : MainResume(n)
  \/ Report

Spec == Init /\ [][Next]_vars

\* The run under the assumption that every remote call and every timed delay
\* eventually returns or fails: the event loop then resumes the one
\* continuation that waits for it, so a step that can be taken is taken.
SpecFair == Spec /\ WF_vars(Next)

----------------------------------------------------------------------------
(* One invocation of runTest, from main's call to the return: main is about  *)
(* to make its k-th call after browsers.create failed in every earlier       *)
(* scenario (a state Spec reaches), and only runTest runs.                    *)

CreateFailedResult(k) ==
  SetField(InitialResult(name(k), stopReplay(k), waitBeforeDeleteMs(k)),
           "error", "timeout")

InitRunTest ==
  \E k \in Tests :
    /\ mainPc = "call"
    /\ cur = k
    /\ results = [i \in 1..(k - 1) |-> CreateFailedResult(i)]
    /\ report = [printed |-> FALSE]
    /\ pc = [n \in Tests |-> IF n < k THEN "done" ELSE "idle"]
    /\ result = [n \in Tests |-> NoResult]
    /\ kernelBrowser = [n \in Tests |-> ""]
    /\ replay = [n \in Tests |-> ""]
    /\ replays = [n \in Tests |-> <<>>]
    /\ idx = [n \in Tests |-> 0]
    /\ calls = [n \in Tests |-> <<>>]
    /\ created = {}
    /\ deleteCalled = {}

NextRunTest ==
  \/ \E n \in Tests : MainCall(n)
  \/ \E n \in Tests : Create(n)
  \/ \E n \in Tests : ConnectOverCDP(n)
  \/ \E n \in Tests : Context(n)
  \/ \E n \in Tests : Page(n)
  \/ \E n \in Tests : Goto1(n)
  \/ \E n \in Tests : WaitForLoadState(n)
  \/ \E n \in Tests : Start(n)
  \/ \E n \in Tests : Click(n)
  \/ \E n \in Tests : Pause1(n)
  \/ \E n \in Tests : Goto2(n)
  \/ \E n \in Tests : Pause2(n)
  \/ \E n \in Tests : Close(n)
  \/ \E n \in Tests : Stop(n)
  \/ \E n \in Tests : Wait(n)
  \/ \E n \in Tests : Delete(n)
  \/ \E n \in Tests : Settle(n)
  \/ \E n \in Tests : List(n)
  \/ \E n \in Tests : Download(n)
  \/ \E n \in Tests : Blob(n)

SpecRunTest == InitRunTest /\ [][NextRunTest]_vars

\* the states InitRunTest starts from
IsRunTestStart ==
  /\ mainPc = "call"
  /\ results = [i \in 1..(cur - 1) |-> CreateFailedResult(i)]
  /\ created = {}
  /\ deleteCalled = {}

----------------------------------------------------------------------------
(* What the properties below read off the state *)

\* invocation n has run the statement `op` / run it and had it throw / return
Attempted(n, op) == \E i \in 1..Len(calls[n]) : calls[n][i].op = op
Failed(n, op) == \E i \in 1..Len(calls[n]) : calls[n][i].op = op /\ ~calls[n][i].ok
Succeeded(n, op) == \E i \in 1..Len(calls[n]) : calls[n][i].op = op /\ calls[n][i].ok

\* the list invocation n received holds the replay id its replays.start returned
Matches(n) ==
  \E i \in 1..Len(calls[n]) :
    calls[n][i].op = "list" /\ calls[n][i].ok /\ ReplayIdFor(n) \in calls[n][i].ids

\* the fields every TestResult has, and the optional ones (lines 7..17)
RequiredFields == {"name", "sessionId", "replayId", "stopCalled", "waitMs", "replayFound"}
OptionalFields == {"replayStatus", "replayFileSize", "error"}
IsTestResult(r) ==
  /\ RequiredFields \subseteq DOMAIN r
  /\ DOMAIN r \subseteq RequiredFields \cup OptionalFields

\* the statements of the outer try that are not inside an inner try
OuterOps == {"create", "connectOverCDP", "context", "page", "goto", "waitForLoadState",
             "start", "click", "close", "stop", "deleteByID"}

----------------------------------------------------------------------------
(* C1: whatever remote call fails, runTest returns a TestResult and never     *)
(* throws: a failing statement of the outer try ends the invocation with a   *)
(* result, main never leaves through its catch, and main reaches the report  *)
(* with exactly five results, the k-th being the one of the k-th scenario.   *)
C1_RunTestAlwaysReturns ==
  /\ mainPc # "failed"
  /\ \A n \in Tests :
       /\ pc[n] # "threw"
       /\ (\E i \in 1..Len(calls[n]) : calls[n][i].op \in OuterOps /\ ~calls[n][i].ok)
            => pc[n] = "returned"
       /\ pc[n] = "returned" => IsTestResult(result[n])
  /\ Len(results) <= NumScenarios
  /\ \A k \in 1..Len(results) :
       /\ IsTestResult(results[k])
       /\ results[k].name = Scenarios[k].name
  /\ mainPc \in {"report", "done"} => Len(results) = NumScenarios

\* the report is printed after a run in which create failed for scenario 1, the
\* list failed for 2, the download failed for 3, a later step failed for 4 and
\* scenario 5 found its replay
C1_Witness ==
  /\ mainPc = "done"
  /\ report.printed
  /\ Len(results) = NumScenarios
  /\ Has(results[1], "error") /\ results[1].sessionId = ""
  /\ Has(results[2], "replayStatus") /\ results[2].replayStatus = ListErrorStatus("timeout")
  /\ Has(results[3], "replayFileSize") /\ results[3].replayFileSize = 0
  /\ Has(results[4], "error") /\ results[4].replayId # Null
  /\ Has(results[5], "replayFileSize") /\ results[5].replayFileSize = MaxBlobSize

(* C2: when browsers.create succeeded, a returned scenario has still         *)
(* attempted the deletion of the session and the replay list query, whatever *)
(* later step failed.                                                        *)
C2_LaterStepsStillAttempted ==
  \A n \in Tests :
    (pc[n] = "returned" /\ Succeeded(n, "create"))
      => (Attempted(n, "deleteByID") /\ Attempted(n, "list"))

(* C3: if browsers.create fails, runTest runs no further statement and       *)
(* returns a result with error set, sessionId empty, replayId null and       *)
(* replayFound false.                                                        *)
C3_CreateFailureIsTerminal ==
  \A n \in Tests :
    Failed(n, "create") =>
      /\ Len(calls[n]) = 1
      /\ pc[n] = "returned"
      /\ Has(result[n], "error")
      /\ result[n].error \in Messages
      /\ result[n].sessionId = ""
      /\ result[n].replayId = Null
      /\ result[n].replayFound = FALSE
      /\ SessionIdFor(n) \notin created

C3_Witness ==
  \E n \in Tests :
    /\ n > 1
    /\ pc[n] = "returned"
    /\ Failed(n, "create")
    /\ Has(result[n], "error")

(* C4: when the list query succeeds and holds no entry with the replay id of *)
(* replays.start (empty, or only other ids), the returned result has         *)
(* replayFound = false, replayStatus = "not_found", and no download ran.     *)
C4_NoMatchMeansNotFound ==
  \A n \in Tests :
    (pc[n] = "returned" /\ Succeeded(n, "list") /\ ~Matches(n)) =>
      /\ result[n].replayFound = FALSE
      /\ Has(result[n], "replayStatus")
      /\ result[n].replayStatus = "not_found"
      /\ ~Attempted(n, "download")
      /\ ~Has(result[n], "replayFileSize")

(* C5: if the list query throws, the invocation returns a result with        *)
(* replayFound = false, a replayStatus "list_error: <message>", no error     *)
(* field, and no download ran.                                               *)
C5_ListErrorIsRecorded ==
  \A n \in Tests :
    Failed(n, "list") =>
      /\ pc[n] = "returned"
      /\ result[n].replayFound = FALSE
      /\ Has(result[n], "replayStatus")
      /\ \E m \in Messages : result[n].replayStatus = "list_error: " \o m
      /\ ~Has(result[n], "error")
      /\ ~Attempted(n, "download")
      /\ ~Has(result[n], "replayFileSize")

C5_Witness ==
  \E n \in Tests :
    /\ pc[n] = "returned"
    /\ Failed(n, "list")
    /\ Succeeded(n, "deleteByID")
    /\ result[n].replayStatus = "list_error: timeout"

(* C6: if the list holds an entry with the replay id of replays.start, the   *)
(* result has replayFound = true and replayStatus = "found", a download of   *)
(* that replay id under the scenario's session id was attempted, and when    *)
(* the download succeeded replayFileSize is its byte count.                  *)
C6_MatchIsFoundAndDownloaded ==
  \A n \in Tests :
    (Succeeded(n, "list") /\ Matches(n)) =>
      /\ pc[n] \in {"download", "blob", "returned"}
      /\ result[n].replayFound = TRUE
      /\ Has(result[n], "replayStatus")
      /\ result[n].replayStatus = "found"
      /\ pc[n] = "returned" =>
           /\ \E i \in 1..Len(calls[n]) :
                /\ calls[n][i].op = "download"
                /\ calls[n][i].sid = SessionIdFor(n)
                /\ calls[n][i].sid = result[n].sessionId
                /\ calls[n][i].rid = result[n].replayId
           /\ Has(result[n], "replayFileSize")
           /\ \A i \in 1..Len(calls[n]) :
                (calls[n][i].op = "blob" /\ calls[n][i].ok)
                  => result[n].replayFileSize = calls[n][i].num

\* the list held the started replay and another one, the download returned a
\* non-empty blob and the result holds its size
C6_Witness ==
  \E n \in Tests :
    /\ pc[n] = "returned"
    /\ Matches(n)
    /\ \E i \in 1..Len(calls[n]) : calls[n][i].op = "list" /\ calls[n][i].num = 2
    /\ Succeeded(n, "blob")
    /\ result[n].replayFileSize = MaxBlobSize
    /\ MaxBlobSize > 0

(* C7: a failure of the download call or of reading its blob is not          *)
(* propagated: the invocation returns a result with replayFound = true,      *)
(* replayStatus = "found", replayFileSize = 0 and no error field.            *)
C7_DownloadFailureIsAbsorbed ==
  \A n \in Tests :
    (Failed(n, "download") \/ Failed(n, "blob")) =>
      /\ pc[n] = "returned"
      /\ result[n].replayFound = TRUE
      /\ Has(result[n], "replayStatus")
      /\ result[n].replayStatus = "found"
      /\ Has(result[n], "replayFileSize")
      /\ result[n].replayFileSize = 0
      /\ ~Has(result[n], "error")

\* the download returned and reading its blob threw
C7_Witness ==
  \E n \in Tests :
    /\ pc[n] = "returned"
    /\ Succeeded(n, "download")
    /\ Failed(n, "blob")
    /\ result[n].replayFileSize = 0

(* C8: in every result, while runTest runs, when it has returned and once    *)
(* pushed, name, stopCalled and waitMs equal the arguments of the call.      *)
C8_ArgumentsAreEchoed ==
  /\ \A n \in Tests :
       pc[n] \notin {"idle", "done"} =>
         /\ result[n].name = name(n)
         /\ result[n].stopCalled = stopReplay(n)
         /\ result[n].waitMs = waitBeforeDeleteMs(n)
  /\ \A k \in 1..Len(results) :
       /\ results[k].name = Scenarios[k].name
       /\ results[k].stopCalled = Scenarios[k].stopReplay
       /\ results[k].waitMs = Scenarios[k].waitBeforeDeleteMs

\* all five results are in, the first from a failed scenario without stop, the
\* last from a scenario that stopped, waited 1000 ms and found its replay
C8_Witness ==
  /\ Len(results) = NumScenarios
  /\ Has(results[1], "error")
  /\ results[1].stopCalled = FALSE
  /\ results[1].waitMs = 0
  /\ results[5].replayFound
  /\ results[5].stopCalled = TRUE
  /\ results[5].waitMs = 1000

(* C9: at the moment a scenario is about to call browsers.create, deleteByID *)
(* has been called on every session the earlier scenarios created.           *)
C9_TornDownBeforeNextCreate ==
  \A n \in Tests :
    pc[n] = "create" =>
      \A m \in 1..(n - 1) : SessionIdFor(m) \in created => SessionIdFor(m) \in deleteCalled

(* C10: scenarios never interleave: while an invocation of runTest is        *)
(* running or has returned a result main has not taken yet, main awaits it,  *)
(* every earlier scenario is finished with its result pushed and no later    *)
(* one has started; and results grows only by main appending the result of   *)
(* the invocation it awaits, once that invocation has returned.              *)
C10_OneScenarioAtATime ==
  \A n \in Tests :
    pc[n] \notin {"idle", "done"} =>
      /\ mainPc = "await"
      /\ cur = n
      /\ Len(results) = n - 1
      /\ \A m \in 1..(n - 1) : pc[m] = "done" /\ calls[m] = <<>>
      /\ \A m \in (n + 1)..NumScenarios : pc[m] = "idle" /\ calls[m] = <<>>

C10_PushAfterReturn ==
  results' # results =>
    /\ pc[cur] = "returned"
    /\ results' = Append(results, result[cur])
    /\ Len(results) = cur - 1

C10_ScenariosNeverInterleave ==
  /\ []C10_OneScenarioAtATime
  /\ [][C10_PushAfterReturn]_vars

\* scenario 3 is between its stop and its delete while two results are in
C10_Witness ==
  /\ pc[3] = "wait"
  /\ Len(results) = 2
  /\ Succeeded(3, "stop")
  /\ pc[1] = "done"
  /\ pc[4] = "idle"

----------------------------------------------------------------------------
(* The ANALYSIS section as a function of `results`: it is applied to every   *)
(* sequence of up to MaxResults results, each with any stopCalled, any of    *)
(* the waits and any replayFound.                                            *)

\* waitMs of a result: no wait, and two of the waits main passes
WaitValues == {0, 250, 500}

\* the results the report reads: stopCalled, waitMs and replayFound are free
ResultInputs ==
  {SetField(InitialResult("t", s, w), "replayFound", f) :
     s \in BOOLEAN, w \in WaitValues, f \in BOOLEAN}

InitReport ==
  /\ mainPc = "report"
  /\ results \in UNION {[1..k -> ResultInputs] : k \in 0..MaxResults}
  /\ cur = NumScenarios
  /\ report = [printed |-> FALSE]
  /\ pc = [n \in Tests |-> "done"]
  /\ result = [n \in Tests |-> NoResult]
  /\ kernelBrowser = [n \in Tests |-> ""]
  /\ replay = [n \in Tests |-> ""]
  /\ replays = [n \in Tests |-> <<>>]
  /\ idx = [n \in Tests |-> 0]
  /\ calls = [n \in Tests |-> <<>>]
  /\ created = {}
  /\ deleteCalled = {}

NextReport == Report

SpecReport == InitReport /\ [][NextReport]_vars

----------------------------------------------------------------------------
(* The history of one invocation, by position *)

\* the positions of the statement `op` in the history of invocation n
Positions(n, op) == {i \in 1..Len(calls[n]) : calls[n][i].op = op}

\* every `a` of the history comes before every `b`
Before(n, a, b) == \A i \in Positions(n, a) : \A j \in Positions(n, b) : i < j

\* invocation n is past the statement: it has run it and it returned
Returned(n, op) == \E i \in Positions(n, op) : calls[n][i].ok

\* no statement of invocation n has thrown into the outer catch
NoOuterFailure(n) ==
  \A i \in 1..Len(calls[n]) : calls[n][i].op \in OuterOps => calls[n][i].ok

(* C11: replays.stop is called only when stopReplay is true, at most once,   *)
(* after replays.start and browser.close have returned, and before          *)
(* deleteByID; when stopReplay is false stop is never called and, after      *)
(* close has returned, the invocation goes on to deleteByID and, unless one  *)
(* of them throws, to the list query.                                        *)
C11_StopOnlyWhenAsked ==
  \A n \in Tests :
    /\ Cardinality(Positions(n, "stop")) <= 1
    /\ Attempted(n, "stop") =>
         /\ stopReplay(n)
         /\ Returned(n, "start")
         /\ Returned(n, "close")
         /\ Before(n, "start", "stop")
         /\ Before(n, "close", "stop")
         /\ \A i \in Positions(n, "stop") :
              calls[n][i].sid = SessionIdFor(n) /\ calls[n][i].rid = ReplayIdFor(n)
    /\ Before(n, "stop", "deleteByID")
    /\ (stopReplay(n) /\ Attempted(n, "deleteByID")) => Returned(n, "stop")
    /\ (pc[n] = "stop") => stopReplay(n)
    /\ (~stopReplay(n) /\ Returned(n, "close")) =>
         /\ ~Attempted(n, "stop")
         /\ pc[n] \in {"wait", "delete", "settle", "list", "download", "blob", "returned"}
         /\ pc[n] \notin {"wait", "delete"} => Attempted(n, "deleteByID")
         /\ (pc[n] = "returned" /\ NoOuterFailure(n)) => Attempted(n, "list")

\* the scenario without stop has deleted its session and queried the list
C11_Witness ==
  \E n \in Tests :
    /\ ~stopReplay(n)
    /\ pc[n] = "returned"
    /\ Returned(n, "close")
    /\ Returned(n, "deleteByID")
    /\ Returned(n, "list")
    /\ ~Attempted(n, "stop")

\* the statement that ends the stop step of invocation n: replays.stop when
\* stopReplay is true, otherwise browser.close, after which the step is skipped
StopStep(n) == IF stopReplay(n) THEN "stop" ELSE "close"

(* C12: between the stop step (or its skip) and deleteByID the invocation    *)
(* sleeps if and only if waitBeforeDeleteMs > 0, once and for               *)
(* waitBeforeDeleteMs milliseconds; with a wait of 0 deleteByID directly     *)
(* follows the stop step, and no other statement comes between.             *)
C12_WaitIffPositive ==
  \A n \in Tests : \A i \in Positions(n, "deleteByID") :
    IF waitBeforeDeleteMs(n) > 0
    THEN /\ i > 2
         /\ calls[n][i - 1].op = "sleep"
         /\ calls[n][i - 1].num = waitBeforeDeleteMs(n)
         /\ calls[n][i - 1].ok
         /\ calls[n][i - 2].op = StopStep(n)
         /\ calls[n][i - 2].ok
    ELSE /\ i > 1
         /\ calls[n][i - 1].op = StopStep(n)
         /\ calls[n][i - 1].ok

\* {stop, 500}: a 500 ms sleep lies between replays.stop and deleteByID
C12_Witness ==
  \E n \in Tests : \E i \in Positions(n, "deleteByID") :
    /\ stopReplay(n)
    /\ waitBeforeDeleteMs(n) = 500
    /\ i > 2
    /\ calls[n][i - 1].op = "sleep"
    /\ calls[n][i - 1].num = 500
    /\ calls[n][i - 2].op = "stop"

\* the results that count for the minimum delay, and the delayed ones
Qualified == {i \in 1..Len(results) :
                results[i].stopCalled /\ results[i].waitMs > 0 /\ results[i].replayFound}
Delayed == {i \in 1..Len(results) : results[i].stopCalled /\ results[i].waitMs > 0}

(* C13: for any sequence of results the reported minimum delay is the least  *)
(* waitMs among the results with stopCalled, waitMs > 0 and replayFound; if  *)
(* there is none but some result has stopCalled and waitMs > 0 the report    *)
(* says that no delayed test succeeded; without any delayed result neither   *)
(* is printed.                                                               *)
C13_MinimumDelay ==
  report.printed =>
    /\ Qualified # {} =>
         /\ \E i \in Qualified : report.minDelay = results[i].waitMs
         /\ \A i \in Qualified : report.minDelay <= results[i].waitMs
         /\ ~report.noneSucceeded
    /\ (Qualified = {} /\ Delayed # {}) =>
         report.noneSucceeded /\ report.minDelay = -1
    /\ Delayed = {} =>
         ~report.noneSucceeded /\ report.minDelay = -1

\* [{stop:false, found}, {stop:true, wait 0, found}, {stop:true, wait 250, found}]
\* gives 250
C13_Witness ==
  /\ report.printed
  /\ Len(results) = 3
  /\ ~results[1].stopCalled /\ results[1].replayFound
  /\ results[2].stopCalled /\ results[2].waitMs = 0 /\ results[2].replayFound
  /\ results[3].stopCalled /\ results[3].waitMs = 250 /\ results[3].replayFound
  /\ report.minDelay = 250

\* the results without stop, and those with stop and no wait
NoStop == {i \in 1..Len(results) : ~results[i].stopCalled}
ImmediateStop == {i \in 1..Len(results) :
                    results[i].stopCalled /\ results[i].waitMs = 0}

\* the least element of a non-empty set of positions
First(S) == CHOOSE i \in S : \A j \in S : i <= j

\* what the immediate-delete paragraph prints for a result
YesNo(r) == IF r.replayFound THEN "YES" ELSE "NO"

StepRank(n, i) ==
  LET c == calls[n][i]
      closed == \E j \in 1..(i - 1) : calls[n][j].op = "close"
      deleted == \E j \in 1..(i - 1) : calls[n][j].op = "deleteByID"
  IN CASE c.op = "create" -> 1
       [] c.op = "connectOverCDP" -> 2
       [] c.op = "start" -> 3
       [] c.op = "close" -> 4
       [] c.op = "stop" -> 5
       [] c.op = "sleep" /\ closed /\ ~deleted -> 6
       [] c.op = "deleteByID" -> 7
       [] c.op = "sleep" /\ deleted -> 8
       [] c.op = "list" -> 9
       [] OTHER -> 0

\* the steps every scenario takes: all but the stop and the wait
Mandatory == {1, 2, 3, 4, 7, 8, 9}

(* C15: within one invocation the remote steps create, driver attach, replay *)
(* start, driver close, stop, wait, deleteByID, settling delay and list      *)
(* happen in this order, each at most once, and a step is reached only after *)
(* every step before it has returned (stop and wait being optional); the     *)
(* settling delay is 3000 ms; the list is queried only after deleteByID has  *)
(* returned successfully and the settling delay has elapsed; a download is   *)
(* attempted only after the list has returned.                               *)
C15_FixedStepOrder ==
  \A n \in Tests :
    /\ \A i, j \in 1..Len(calls[n]) :
         (i < j /\ StepRank(n, i) > 0 /\ StepRank(n, j) > 0) =>
           StepRank(n, i) < StepRank(n, j) /\ calls[n][i].ok
    /\ \A j \in 1..Len(calls[n]) : \A r \in Mandatory :
         (0 < r /\ r < StepRank(n, j)) => \E i \in 1..(j - 1) : StepRank(n, i) = r
    /\ \A i \in 1..Len(calls[n]) :
         /\ StepRank(n, i) = 6 => calls[n][i].num = waitBeforeDeleteMs(n)
         /\ StepRank(n, i) = 8 => calls[n][i].num = ProcessingWaitMs
    /\ \A l \in Positions(n, "list") :
         \E d, t \in 1..(l - 1) :
           /\ d < t
           /\ calls[n][d].op = "deleteByID" /\ calls[n][d].ok
           /\ calls[n][t].op = "sleep" /\ calls[n][t].num = ProcessingWaitMs
    /\ \A d \in Positions(n, "download") :
         \E l \in 1..(d - 1) : calls[n][l].op = "list" /\ calls[n][l].ok

\* a scenario with stop and wait went through all nine steps and downloaded
C15_Witness ==
  \E n \in Tests :
    /\ pc[n] = "returned"
    /\ {StepRank(n, i) : i \in 1..Len(calls[n])} = 0..9
    /\ Returned(n, "download")

\* entry i of the history of invocation n is a statement of the activity
\* generation: a navigation, the wait for idle, the click or an activity pause
\* (a sleep before browser.close)
IsActivity(n, i) ==
  \/ calls[n][i].op \in {"goto", "waitForLoadState", "click"}
  \/ calls[n][i].op = "sleep" /\ StepRank(n, i) = 0

(* C16 as stated: the activity generation is completed before the replay     *)
(* recording is started: no navigation, click or activity pause happens      *)
(* after replays.start has been called.                                      *)
C16_NoActivityAfterStart ==
  \A n \in Tests : \A s \in Positions(n, "start") :
    \A i \in (s + 1)..Len(calls[n]) : ~IsActivity(n, i)

(* C16, amended: only the first navigation and the wait for idle are         *)
(* completed before replays.start is called; the click, a 1000 ms pause, the *)
(* second navigation and a second 1000 ms pause happen, in this order, after *)
(* replays.start has returned and before the driver is closed.               *)
C16_RecordingCoversActivity ==
  \A n \in Tests :
    /\ \A s \in Positions(n, "start") :
         /\ s > 2
         /\ calls[n][s - 2].op = "goto" /\ calls[n][s - 2].ok
         /\ calls[n][s - 1].op = "waitForLoadState" /\ calls[n][s - 1].ok
         /\ \A i \in 1..(s - 1) : calls[n][i].op \notin {"click", "sleep"}
         /\ Cardinality({i \in 1..(s - 1) : calls[n][i].op = "goto"}) = 1
    /\ \A c \in Positions(n, "click") :
         c > 1 /\ calls[n][c - 1].op = "start" /\ calls[n][c - 1].ok
    /\ \A k \in Positions(n, "close") :
         /\ k > 5
         /\ calls[n][k - 5].op = "start"
         /\ calls[n][k - 4].op = "click"
         /\ calls[n][k - 3].op = "sleep" /\ calls[n][k - 3].num = RecordingPauseMs
         /\ calls[n][k - 2].op = "goto"
         /\ calls[n][k - 1].op = "sleep" /\ calls[n][k - 1].num = RecordingPauseMs
         /\ \A i \in (k + 1)..Len(calls[n]) : ~IsActivity(n, i)

\* the driver was closed after the click, the second navigation and both
\* pauses, all of them later than replays.start
C16_Witness ==
  \E n \in Tests : \E s \in Positions(n, "start") : \E k \in Positions(n, "close") :
    /\ calls[n][k].ok
    /\ s < k
    /\ Cardinality({i \in (s + 1)..(k - 1) : IsActivity(n, i)}) = 4

\* invocation n waits for a remote call or a delay
InFlight(n) == pc[n] \notin {"idle", "returned", "threw", "done"}

\* the run has completed all five scenarios, each has returned its result, and
\* the report is printed
Completed ==
  /\ mainPc = "done"
  /\ Len(results) = NumScenarios
  /\ report.printed
  /\ \A n \in Tests : pc[n] = "done" /\ results[n].name = name(n)

\* while a call of invocation n is in flight nothing but that call's return or
\* failure happens: main and the other invocations do not move
StalledWhileInFlight ==
  \A n \in Tests :
    InFlight(n) =>
      /\ mainPc = "await" /\ cur = n
      /\ mainVars' = mainVars
      /\ \A m \in Tests \ {n} : pc'[m] = pc[m] /\ ~InFlight(m)
      /\ pc'[n] # pc[n]

(* C17: if every remote call and every delay eventually returns or fails,   *)
(* every scenario returns and the run completes all five scenarios and       *)
(* prints the report; and as long as a call is in flight the scenario, main  *)
(* and every other scenario stand still: only the return or the failure of   *)
(* that very call moves the run on, nothing cancels it or times it out.      *)
C17_CompletesUnlessACallHangs ==
  /\ <>Completed
  /\ [][StalledWhileInFlight]_vars

\* the report is printed after five scenarios, one of which failed on the way
C17_Witness ==
  /\ Completed
  /\ \E i \in 1..Len(results) : Has(results[i], "error")
  /\ \E i \in 1..Len(results) : Has(results[i], "replayFileSize")

\* the calls that take the id of a session, and those that take a replay id
SessionScoped == {"start", "stop", "deleteByID", "list", "download"}
ReplayScoped == {"stop", "download"}

\* the session id the create of invocation n returned, "" if it has not returned;
\* the replay id its start returned
OwnSession(n) ==
  IF Returned(n, "create")
  THEN calls[n][CHOOSE i \in Positions(n, "create") : calls[n][i].ok].sid
  ELSE ""
OwnReplay(n) ==
  IF Returned(n, "start")
  THEN calls[n][CHOOSE i \in Positions(n, "start") : calls[n][i].ok].rid
  ELSE ""

(* C18: an invocation calls browsers.create at most once and replays.start   *)
(* at most once; every start, stop, deleteByID, list and download it makes   *)
(* carries the session id its own create returned, every stop and download   *)
(* the replay id its own start returned (a download: the id of a list entry  *)
(* equal to it), and these ids belong to no other scenario.                  *)
C18_OwnSessionOnly ==
  \A n \in Tests :
    /\ Cardinality(Positions(n, "create")) <= 1
    /\ Cardinality(Positions(n, "start")) <= 1
    /\ \A i \in 1..Len(calls[n]) :
         /\ calls[n][i].op \in SessionScoped =>
              /\ Returned(n, "create")
              /\ calls[n][i].sid = OwnSession(n)
              /\ calls[n][i].sid = result[n].sessionId
              /\ \A m \in Tests \ {n} : calls[n][i].sid # SessionIdFor(m)
         /\ calls[n][i].op \in ReplayScoped =>
              /\ Returned(n, "start")
              /\ calls[n][i].rid = OwnReplay(n)
              /\ calls[n][i].rid = result[n].replayId
              /\ \A m \in Tests \ {n} : calls[n][i].rid # ReplayIdFor(m)

\* a scenario other than the first has stopped, deleted, listed and downloaded
C18_Witness ==
  \E n \in Tests \ {1} :
    /\ Returned(n, "stop")
    /\ Returned(n, "deleteByID")
    /\ Returned(n, "list")
    /\ Returned(n, "download")
    /\ OwnSession(n) = SessionIdFor(n)
    /\ OwnReplay(n) = ReplayIdFor(n)

\* the results runTest has returned: those main has pushed and those of the
\* invocations that are at their return statement
ReturnedResults ==
  {results[i] : i \in 1..Len(results)} \cup {result[n] : n \in {m \in Tests : pc[m] = "returned"}}

(* C19: in every returned result, if error is set then replayFound is false  *)
(* and replayStatus and replayFileSize are absent; if replayStatus is set    *)
(* then error is absent; a replayId that is not null comes with a non-empty  *)
(* sessionId.                                                                *)
C19_ErrorExcludesVerification ==
  \A r \in ReturnedResults :
    /\ Has(r, "error") =>
         ~r.replayFound /\ ~Has(r, "replayStatus") /\ ~Has(r, "replayFileSize")
    /\ Has(r, "replayStatus") => ~Has(r, "error")
    /\ r.replayId # Null => r.sessionId # ""

\* an invocation returned with an error after its replay had been started
C19_Witness ==
  \E n \in Tests :
    /\ pc[n] = "returned"
    /\ Has(result[n], "error")
    /\ result[n].replayId # Null
    /\ result[n].sessionId # ""
    /\ Failed(n, "deleteByID")

(* C20: in every returned result replayFileSize is present if and only if    *)
(* replayStatus is "found", which is also exactly when a download was        *)
(* attempted; and replayStatus = "found" implies replayFound = true and a    *)
(* replayId that is not null.                                                *)
C20_SizeIffFound ==
  /\ \A r \in ReturnedResults :
       LET found == Has(r, "replayStatus") /\ r.replayStatus = "found"
       IN /\ Has(r, "replayFileSize") <=> found
          /\ found => r.replayFound /\ r.replayId # Null
  /\ \A n \in Tests :
       pc[n] = "returned" =>
         (Attempted(n, "download") <=>
            (Has(result[n], "replayStatus") /\ result[n].replayStatus = "found"))

\* a match was found and its download failed: the size is recorded as 0
C20_Witness ==
  \E n \in Tests :
    /\ pc[n] = "returned"
    /\ Failed(n, "download")
    /\ result[n].replayStatus = "found"
    /\ result[n].replayFileSize = 0
    /\ result[n].replayFound

====
